---- MODULE Spec2Model ----
(***************************************************************************)
(* Match registry and observer fan-out of the tactical ASCII game server.  *)
(*                                                                         *)
(* State: the Match Store (AppState.matches), the Observer Registry        *)
(* (AppState.observers), one bounded mpsc channel per WebSocket session,   *)
(* the position of every HTTP request handler and of every WebSocket       *)
(* session, and the wall clock read by chrono::Utc::now().                 *)
(*                                                                         *)
(* A step is what one task does between two await points.  The matches     *)
(* lock is never held across an await, so every store operation is one     *)
(* step.  The observers lock is held by notify_observers across every      *)
(* sender.send(..).await, so a notify is one step per sender, and          *)
(* add_observer (a writer) waits until no notify holds the lock; tokio's   *)
(* RwLock is FIFO-fair, so a waiting writer holds back later readers.      *)
(***************************************************************************)
EXTENDS Integers, Sequences, FiniteSets, TLC

\* ------------------------------------------------------------- bounds

\* Identities a generated "match-<uuid>" can take.
MaxMatchIds == 4
\* Concurrent HTTP request handlers.
MaxClients == 2
\* WebSocket connections opened during a run.
MaxSessions == 2
\* Actions the engine accepts during a run.
MaxAccepted == 2
\* Readings the wall clock can take.
MaxTime == 1
\* Capacity of a session's mpsc channel: tokio::sync::mpsc::channel(100) in the
\* source, scaled down so that a run fills a channel.
ChannelCapacity == 1

MatchIds == 1..MaxMatchIds
Clients  == 1..MaxClients
Sessions == 1..MaxSessions

\* ------------------------------------------------------------- inputs

\* The hardcoded example matches of init_example_matches, in order.
ExampleMatches ==
    << <<"alice", "bob">>, <<"player1", "player2">>, <<"human", "ai">> >>

\* Player pairs a POST /match/create is tried with.
CreatePairs == { <<"a", "b">> }

\* Match ids the requests and the connections are tried with: an id that has
\* no match until a POST /match/create generates it.
RequestIds == {MaxMatchIds}
\* For the store's specification: also the id of the first example match.
StoreIds == {1, MaxMatchIds}

\* Player ids a POST /action or POST /ai/action is tried with.
PlayerIds == {"alice", "bob", "a", "b"}

\* Actions a POST /action is tried with: the engine's EndTurn, and a move the
\* engine refuses.
Actions == {"EndTurn", "IllegalMove"}

None == [some |-> FALSE]
Some(v) == [some |-> TRUE, value |-> v]

\* ------------------------------------------------------------- engine

\* GameState::new(player1, player2): player1 moves first.
GameStateNew(player1, player2) ==
    [players |-> <<player1, player2>>, turn |-> player1, turn_count |-> 0]

OtherPlayer(state) ==
    IF state.turn = state.players[1] THEN state.players[2] ELSE state.players[1]

\* apply_action(&state, &player_id, action): pure; EndTurn by the player whose
\* turn it is passes the turn, anything else is refused.
apply_action(state, player_id, action) ==
    IF player_id # state.turn
    THEN [ok |-> FALSE, error |-> "NotYourTurn"]
    ELSE IF action # "EndTurn"
    THEN [ok |-> FALSE, error |-> "InvalidAction"]
    ELSE [ok |-> TRUE,
          state |-> [state EXCEPT !.turn = OtherPlayer(state),
                                  !.turn_count = @ + 1]]

\* ai_choose_action(&state, &ai_player): pure; absent when the player has no
\* legal action.
ai_choose_action(state, ai_player) ==
    IF ai_player = state.turn THEN Some("EndTurn") ELSE None

\* -------------------------------------------------------- Match Store

\* A constructor that reads the clock once per timestamp, the second reading
\* later than the first.
MatchNewTwoReadings(id, player1, player2, t) ==
    [id |-> id, state |-> GameStateNew(player1, player2),
     created_at |-> t, updated_at |-> t + 1]

\* Match::new with the generated id and the clock reading: one reading of the
\* clock serves both timestamps.
MatchNew(id, player1, player2, t) ==
    [id |-> id, state |-> GameStateNew(player1, player2),
     created_at |-> t, updated_at |-> t]

\* HashMap::insert.
Insert(map, key, value) ==
    [k \in DOMAIN map \cup {key} |-> IF k = key THEN value ELSE map[k]]

\* A lookup that falls back to some stored match when the id is missing.
get_match_or_any(ms, match_id) ==
    IF match_id \in DOMAIN ms THEN Some(ms[match_id])
    ELSE IF DOMAIN ms # {} THEN Some(ms[CHOOSE k \in DOMAIN ms : TRUE])
    ELSE None

\* AppState::get_match: a clone of the record, or absence.
get_match(ms, match_id) ==
    IF match_id \in DOMAIN ms THEN Some(ms[match_id]) ELSE None

\* An update that inserts a record for an id the map does not hold.
update_match_upsert(ms, match_id, new_state, t) ==
    Insert(ms, match_id,
           IF match_id \in DOMAIN ms
           THEN [ms[match_id] EXCEPT !.state = new_state, !.updated_at = t]
           ELSE [id |-> match_id, state |-> new_state,
                 created_at |-> t, updated_at |-> t])

\* An update that never reaches the map.
update_match_dropped(ms, match_id, new_state, t) == ms

\* AppState::update_match: replaces state and updated_at of a present match,
\* does nothing for an absent one.
update_match(ms, match_id, new_state, t) ==
    IF match_id \in DOMAIN ms
    THEN [ms EXCEPT ![match_id].state = new_state, ![match_id].updated_at = t]
    ELSE ms

\* A create that starts the map afresh with the new record.
create_match_alone(ms, match_data) == [k \in {match_data.id} |-> match_data]

\* AppState::create_match: inserts the new record under its id.
create_match(ms, match_data) == Insert(ms, match_data.id, match_data)

\* The summaries list_matches_handler builds; HashMap order is unspecified.
MatchSummaries(ms) ==
    { [id |-> ms[k].id, players |-> ms[k].state.players, turn |-> ms[k].state.turn,
       turn_count |-> ms[k].state.turn_count,
       created_at |-> ms[k].created_at, updated_at |-> ms[k].updated_at]
      : k \in DOMAIN ms }

\* ---------------------------------------------------- Observer Registry

\* A registration that pushes only onto a collection that already exists.
add_observer_existing_only(obs, match_id, sender) ==
    IF match_id \in DOMAIN obs
    THEN [obs EXCEPT ![match_id] = Append(@, sender)]
    ELSE obs

\* AppState::add_observer: entry(match_id).or_insert_with(Vec::new).push(sender).
\* A sender is named by the session that created its channel.
add_observer(obs, match_id, sender) ==
    Insert(obs, match_id,
           IF match_id \in DOMAIN obs THEN Append(obs[match_id], sender)
                                      ELSE <<sender>>)

\* A lookup that takes some collection of the registry, whatever its id.
SendersAnyMatch(obs, match_id) ==
    IF DOMAIN obs = {} THEN << >> ELSE obs[CHOOSE k \in DOMAIN obs : TRUE]

\* observers.get(match_id): the senders a notify iterates, none for no entry.
Senders(obs, match_id) ==
    IF match_id \in DOMAIN obs THEN obs[match_id] ELSE << >>

\* --------------------------------------------------------------- events

InitialState(match_id, state) ==
    [type |-> "initial_state", match_id |-> match_id, state |-> state]

StateUpdate(match_id, state) ==
    [type |-> "state_update", match_id |-> match_id, state |-> state]

\* ------------------------------------------------------------ responses

\* SuccessResponse { success, data } and ErrorResponse { success, error } with
\* the status code of the reply; op names the route that answered.
Ok(op, data) == [op |-> op, status |-> 200, success |-> TRUE, data |-> data]

NotFound(op, match_id) ==
    [op |-> op, status |-> 404, success |-> FALSE,
     error |-> [text |-> "not found", match_id |-> match_id]]

BadRequest(op, error) ==
    [op |-> op, status |-> 400, success |-> FALSE, error |-> [text |-> error]]

ServerError(op) ==
    [op |-> op, status |-> 500, success |-> FALSE, error |-> [text |-> "no action"]]

NoResponse == [op |-> "none", status |-> 0]

\* -------------------------------------------------------------- state

VARIABLES
    matches,     \* AppState.matches: match id -> Match
    observers,   \* AppState.observers: match id -> sequence of senders
    chan,        \* session -> the messages buffered in its mpsc channel
    now,         \* the wall clock
    booted,      \* the task spawned by init_example_matches has run
    pc,          \* client -> position of its request handler
    req,         \* client -> locals of its POST /action handler
    resp,        \* client -> the response its handler produced
    call,        \* client -> what its current POST /action has done so far: the
                 \*   engine ran, the store was written, notify returned, and
                 \*   the senders whose send returned an error
    reply,       \* the response of the latest GET /state, GET /matches, POST /ai/action
    spc,         \* session -> position of handle_websocket
    smatch,      \* session -> the match id it connected with
    snap,        \* session -> the state get_match returned for InitialState
    stalled,     \* session -> the client has stopped reading its socket
    recv,        \* session -> the frames the client has received
    subAt,       \* session -> commits of its match at add_observer (-1: racing)
    commitLog,   \* match id -> the states update_match has written
    accepted,    \* actions the engine has accepted
    mlock,       \* AppState.matches' RwLock: who holds a write or a read guard
    lpc,         \* position of list_matches_handler
    lsnap,       \* what list_matches_handler has read so far
    whole        \* the summaries the store has held between writes

vars == <<matches, observers, chan, now, booted, pc, req, resp, call, reply,
          spc, smatch, snap, stalled, recv, subAt, commitLog, accepted,
          mlock, lpc, lsnap, whole>>

storeVars   == <<matches, commitLog>>
clientVars  == <<pc, req, resp, call, reply>>
sessionVars == <<spc, smatch, snap, stalled, recv, subAt>>
lockVars    == <<mlock, lpc, lsnap, whole>>

NoLock == [writers |-> {}, readers |-> {}]

NoReq  == [match_id |-> 0, player_id |-> "", action |-> "", new_state |-> None,
           idx |-> 0]
NoCall == [engine |-> FALSE, wrote |-> FALSE, notified |-> FALSE, failed |-> {}]

Init ==
    /\ matches = << >>
    /\ observers = << >>
    /\ chan = [s \in Sessions |-> << >>]
    /\ now = 0
    /\ booted = FALSE
    /\ pc = [p \in Clients |-> "idle"]
    /\ req = [p \in Clients |-> NoReq]
    /\ resp = [p \in Clients |-> NoResponse]
    /\ call = [p \in Clients |-> NoCall]
    /\ reply = NoResponse
    /\ spc = [s \in Sessions |-> "idle"]
    /\ smatch = [s \in Sessions |-> 0]
    /\ snap = [s \in Sessions |-> None]
    /\ stalled = [s \in Sessions |-> FALSE]
    /\ recv = [s \in Sessions |-> << >>]
    /\ subAt = [s \in Sessions |-> 0]
    /\ commitLog = [m \in MatchIds |-> << >>]
    /\ accepted = 0
    /\ mlock = NoLock
    /\ lpc = "idle"
    /\ lsnap = << >>
    /\ whole = {}


\* ------------------------------------------------------ process start

\* The task spawned by init_example_matches: takes the write lock once and
\* inserts the three example matches, each under a freshly generated id.
InitExampleMatches(ids) ==
    LET news == [i \in 1..Len(ExampleMatches) |->
                    MatchNew(ids[i], ExampleMatches[i][1], ExampleMatches[i][2], now)]
        InsertAll[i \in 0..Len(ExampleMatches)] ==
            IF i = 0 THEN matches ELSE create_match(InsertAll[i - 1], news[i])
    IN InsertAll[Len(ExampleMatches)]

\* Uuid::new_v4() names a match no record has yet.  Ids are opaque and any
\* fresh ids behave alike, so the ids the three examples get are named
\* 1, 2, 3, and a create draws from the others until the examples are in.
ExampleIds == [i \in 1..Len(ExampleMatches) |-> i]

FreshIds(ms) ==
    (MatchIds \ DOMAIN ms)
        \ (IF booted THEN {} ELSE {ExampleIds[i] : i \in DOMAIN ExampleIds})

Bootstrap ==
    /\ ~booted
    /\ matches' = InitExampleMatches(ExampleIds)
    /\ booted' = TRUE
    /\ UNCHANGED <<observers, chan, now, clientVars, sessionVars, commitLog, accepted>>
    /\ UNCHANGED lockVars

\* chrono::Utc::now() reads the system's wall clock: a later reading is
\* usually greater, and the clock may also be set, forwards or backwards.
Tick ==
    /\ \E t \in 0..MaxTime : t # now /\ now' = t
    /\ UNCHANGED <<matches, observers, chan, booted, clientVars, sessionVars,
                   commitLog, accepted>>
    /\ UNCHANGED lockVars

\* ------------------------------------------------------ HTTP handlers

\* Handler slots are interchangeable: a new request takes the lowest free one.
FreeSlot(p) == pc[p] = "idle" /\ \A q \in Clients : q < p => pc[q] # "idle"

Respond(p, r) ==
    /\ pc' = [pc EXCEPT ![p] = "done"]
    /\ resp' = [resp EXCEPT ![p] = r]

\* POST /match/create: create_match_handler and AppState::create_match.
CreateMatchStep(p, player1, player2) ==
    /\ FreeSlot(p)
    /\ \E id \in FreshIds(matches) :
          /\ matches' = create_match(matches, MatchNew(id, player1, player2, now))
          /\ Respond(p, Ok("create", [match_id |-> id]))
    /\ UNCHANGED <<observers, chan, now, booted, req, call, reply, sessionVars,
                   commitLog, accepted>>

CreateMatch(p, player1, player2) ==
    /\ CreateMatchStep(p, player1, player2)
    /\ UNCHANGED lockVars

\* GET /state: get_state_handler.
GetStateResponse(ms, match_id) ==
    LET found == get_match(ms, match_id)
    IN IF found.some THEN Ok("state", found.value.state)
                     ELSE NotFound("state", match_id)

QueryFrame ==
    UNCHANGED <<matches, observers, chan, now, booted, pc, req, resp, call,
                sessionVars, commitLog, accepted, lockVars>>

GetState(match_id) ==
    /\ reply' = GetStateResponse(matches, match_id)
    /\ QueryFrame

\* GET /matches: list_matches_handler.
ListMatches ==
    /\ reply' = Ok("matches", [matches |-> MatchSummaries(matches)])
    /\ QueryFrame

\* POST /ai/action: ai_action_handler.
AiActionResponse(ms, match_id, ai_player) ==
    LET found == get_match(ms, match_id)
    IN IF ~found.some THEN NotFound("ai", match_id)
       ELSE LET choice == ai_choose_action(found.value.state, ai_player)
            IN IF choice.some THEN Ok("ai", [action |-> choice.value]) ELSE ServerError("ai")

AiAction(match_id, ai_player) ==
    /\ reply' = AiActionResponse(matches, match_id, ai_player)
    /\ QueryFrame

\* The client has read the response; its handler slot is free again.
Return(p) ==
    /\ pc[p] = "done"
    /\ pc' = [pc EXCEPT ![p] = "idle"]
    /\ req' = [req EXCEPT ![p] = NoReq]
    /\ resp' = [resp EXCEPT ![p] = NoResponse]
    /\ call' = [call EXCEPT ![p] = NoCall]
    /\ UNCHANGED <<reply, matches, observers, chan, now, booted, sessionVars,
                   commitLog, accepted>>
    /\ UNCHANGED lockVars


\* ------------------------------------------------- POST /action handler

\* A handler that goes on to commit and notify after the engine refused,
\* with the state it fetched.
PostActionOutcomeIgnoringError(ms, match_id, player_id, action) ==
    LET found == get_match(ms, match_id)
    IN IF ~found.some
       THEN [kind |-> "not_found", engine |-> FALSE]
       ELSE LET r == apply_action(found.value.state, player_id, action)
            IN [kind |-> "accepted", engine |-> TRUE,
                new_state |-> IF r.ok THEN r.state ELSE found.value.state]

\* post_action_handler up to its first store write: get_match, then
\* apply_action on the fetched state.  The engine runs only on a found match.
PostActionOutcome(ms, match_id, player_id, action) ==
    LET found == get_match(ms, match_id)
    IN IF ~found.some
       THEN [kind |-> "not_found", engine |-> FALSE]
       ELSE LET r == apply_action(found.value.state, player_id, action)
            IN IF r.ok
               THEN [kind |-> "accepted", engine |-> TRUE, new_state |-> r.state]
               ELSE [kind |-> "rejected", engine |-> TRUE, error |-> r.error]

PostAction(p, match_id, player_id, action) ==
    /\ FreeSlot(p)
    /\ LET o == PostActionOutcome(matches, match_id, player_id, action)
       IN /\ call' = [call EXCEPT ![p].engine = o.engine]
          /\ CASE o.kind = "not_found" ->
                    /\ Respond(p, NotFound("action", match_id))
                    /\ UNCHANGED <<req, accepted>>
               [] o.kind = "rejected" ->
                    /\ Respond(p, BadRequest("action", o.error))
                    /\ UNCHANGED <<req, accepted>>
               [] o.kind = "accepted" ->
                    /\ accepted < MaxAccepted
                    /\ accepted' = accepted + 1
                    /\ req' = [req EXCEPT ![p] = [match_id |-> match_id,
                                                  player_id |-> player_id,
                                                  action |-> action,
                                                  new_state |-> o.new_state,
                                                  idx |-> 0]]
                    /\ pc' = [pc EXCEPT ![p] = "update"]
                    /\ UNCHANGED resp
    /\ UNCHANGED <<matches, observers, chan, now, booted, reply, sessionVars, commitLog>>
    /\ UNCHANGED lockVars

\* state.update_match(&request.match_id, new_state.clone()).await
PostActionUpdate(p) ==
    /\ pc[p] = "update"
    /\ LET m == req[p].match_id
           st == req[p].new_state
           written == m \in DOMAIN matches' /\ matches'[m].state = st
       IN /\ matches' = update_match(matches, m, st, now)
          /\ commitLog' = IF written
                          THEN [commitLog EXCEPT ![m] = Append(@, st)]
                          ELSE commitLog
          /\ call' = [call EXCEPT ![p].wrote = written]
    /\ pc' = [pc EXCEPT ![p] = "notify_wait"]
    /\ UNCHANGED <<observers, chan, now, booted, req, resp, reply, sessionVars, accepted>>
    /\ UNCHANGED lockVars

\* AppState::update_match called on its own, with any id and any state; the
\* number of calls is capped.
UpdateStates ==
    {GameStateNew("x", "y"), apply_action(GameStateNew("x", "y"), "x", "EndTurn").state}

UpdateMatchCall(p, match_id, new_state) ==
    /\ FreeSlot(p)
    /\ accepted < MaxAccepted
    /\ accepted' = accepted + 1
    /\ matches' = update_match(matches, match_id, new_state, now)
    /\ req' = [req EXCEPT ![p] = [match_id |-> match_id, player_id |-> "",
                                  action |-> "", new_state |-> new_state,
                                  idx |-> 0]]
    /\ commitLog' = IF match_id \in DOMAIN matches'
                    THEN [commitLog EXCEPT ![match_id] = Append(@, new_state)]
                    ELSE commitLog
    /\ Respond(p, [op |-> "update", status |-> 0])
    /\ UNCHANGED <<observers, chan, now, booted, call, reply, sessionVars>>
    /\ UNCHANGED lockVars

\* The observers lock: notify_observers holds a read guard from its first
\* line to its return; add_observer asks for the write guard.
Readers == {p \in Clients : pc[p] = "notify"}
WaitingWriters == {s \in Sessions : spc[s] = "add_wait"}

\* The receiver half of a session's channel has been dropped.
RxDropped(s) == spc[s] = "closed"

\* try_send in place of send().await: a full buffer is an error too, and the
\* message is dropped.
SendOutcomeTrySend(buffer, dropped) ==
    IF dropped \/ Len(buffer) >= ChannelCapacity THEN "closed" ELSE "ok"

\* sender.send(message).await on a bounded channel: an error once the receiver
\* is dropped, completion while the buffer has room, and otherwise it waits.
SendOutcome(buffer, dropped) ==
    IF dropped THEN "closed"
    ELSE IF Len(buffer) < ChannelCapacity THEN "ok"
    ELSE "wait"

\* A loop that propagates the first send error with `?` and leaves.
NextSenderStopOnError(idx, outcome, len) ==
    IF outcome = "closed" THEN len + 1 ELSE idx + 1

\* The for loop of notify_observers: `let _ =` discards the send's result and
\* the loop goes on to the next sender.
NextSender(idx, outcome, len) == idx + 1

\* The message post_action_handler builds for a notify.
Notification(match_id, new_state) == StateUpdate(match_id, new_state)

\* The handler's tail, after notify_observers has returned.
PostActionSuccess(p, sent) ==
    /\ call' = [sent EXCEPT ![p].notified = TRUE]
    /\ Respond(p, Ok("action", req[p].new_state))

\* notify_observers: observers.read().await, then observers.get(match_id).
NotifyAcquire(p) ==
    /\ pc[p] = "notify_wait"
    /\ WaitingWriters = {}
    /\ LET targets == Senders(observers, req[p].match_id)
       IN IF targets = << >>
          THEN /\ PostActionSuccess(p, call)
               /\ UNCHANGED req
          ELSE /\ pc' = [pc EXCEPT ![p] = "notify"]
               /\ req' = [req EXCEPT ![p].idx = 1]
               /\ UNCHANGED <<resp, call>>
    /\ UNCHANGED <<matches, observers, chan, now, booted, reply, sessionVars,
                   commitLog, accepted>>
    /\ UNCHANGED lockVars

\* One iteration of the loop: sender.send(message.clone()).await.
NotifySend(p) ==
    /\ pc[p] = "notify"
    /\ LET senders == Senders(observers, req[p].match_id)
           i == req[p].idx
           s == senders[i]
           outcome == SendOutcome(chan[s], RxDropped(s))
           next == NextSender(i, outcome, Len(senders))
           sent == [call EXCEPT ![p].failed =
                                    IF outcome = "closed" THEN @ \cup {s} ELSE @]
       IN /\ outcome # "wait"
          /\ chan' = IF outcome = "ok"
                     THEN [chan EXCEPT ![s] =
                             Append(@, Notification(req[p].match_id, req[p].new_state))]
                     ELSE chan
          /\ IF next > Len(senders)
             THEN /\ PostActionSuccess(p, sent)
                  /\ UNCHANGED req
             ELSE /\ req' = [req EXCEPT ![p].idx = next]
                  /\ call' = sent
                  /\ UNCHANGED <<pc, resp>>
    /\ UNCHANGED <<matches, observers, now, booted, reply, sessionVars, commitLog,
                   accepted>>
    /\ UNCHANGED lockVars


\* --------------------------------------------------- WebSocket sessions

\* A POST /action on match m is between its get_match and its return.
InFlight(m) ==
    \E p \in Clients : pc[p] \in {"update", "notify_wait", "notify"}
                       /\ req[p].match_id = m

\* websocket_handler and the head of handle_websocket: the socket is split,
\* the channel is created, add_observer is called and asks for the write lock.
\* Connections are numbered in the order they open.
Connect(s, match_id) ==
    /\ spc[s] = "idle"
    /\ \A t \in Sessions : t < s => spc[t] # "idle"
    /\ spc' = [spc EXCEPT ![s] = "add_wait"]
    /\ smatch' = [smatch EXCEPT ![s] = match_id]
    /\ UNCHANGED <<matches, observers, chan, now, booted, clientVars,
                   snap, stalled, recv, subAt, commitLog, accepted>>
    /\ UNCHANGED lockVars

\* add_observer gets the write lock, pushes the sender and returns.
AddObserver(s) ==
    /\ spc[s] = "add_wait"
    /\ Readers = {}
    /\ observers' = add_observer(observers, smatch[s], s)
    /\ subAt' = [subAt EXCEPT ![s] = IF InFlight(smatch[s]) THEN -1
                                     ELSE Len(commitLog[smatch[s]])]
    /\ spc' = [spc EXCEPT ![s] = "get"]
    /\ UNCHANGED <<matches, chan, now, booted, clientVars,
                   smatch, snap, stalled, recv, commitLog, accepted>>
    /\ UNCHANGED lockVars

\* A connection that goes straight to its two tasks, with no snapshot.
SessionGetNoSnapshot(s) ==
    /\ spc[s] = "get"
    /\ spc' = [spc EXCEPT ![s] = "active"]
    /\ UNCHANGED <<matches, observers, chan, now, booted, clientVars,
                   smatch, snap, stalled, recv, subAt, commitLog, accepted>>
    /\ UNCHANGED lockVars

\* state.get_match(&match_id).await: a found match goes on to the InitialState
\* send, an absent one straight to the two tasks.
SessionGet(s) ==
    /\ spc[s] = "get"
    /\ LET found == get_match(matches, smatch[s])
       IN IF found.some
          THEN /\ snap' = [snap EXCEPT ![s] = Some(found.value.state)]
               /\ spc' = [spc EXCEPT ![s] = "init_send"]
          ELSE /\ spc' = [spc EXCEPT ![s] = "active"]
               /\ UNCHANGED snap
    /\ UNCHANGED <<matches, observers, chan, now, booted, clientVars,
                   smatch, stalled, recv, subAt, commitLog, accepted>>
    /\ UNCHANGED lockVars

\* sender.send(Message::Text(initial_state)) succeeds; the tasks are spawned.
InitialSendOk(s) ==
    /\ spc[s] = "init_send"
    /\ recv' = [recv EXCEPT ![s] = Append(@, InitialState(smatch[s], snap[s].value))]
    /\ snap' = [snap EXCEPT ![s] = None]
    /\ spc' = [spc EXCEPT ![s] = "active"]
    /\ UNCHANGED <<matches, observers, chan, now, booted, clientVars,
                   smatch, stalled, subAt, commitLog, accepted>>
    /\ UNCHANGED lockVars

\* The session is over: the receiver half is dropped with whatever it buffers;
\* the sender stays in the registry.  The client is gone, and what it had
\* received with it.
DropReceiver(s) ==
    /\ spc' = [spc EXCEPT ![s] = "closed"]
    /\ chan' = [chan EXCEPT ![s] = << >>]
    /\ recv' = [recv EXCEPT ![s] = << >>]
    /\ subAt' = [subAt EXCEPT ![s] = 0]
    /\ snap' = [snap EXCEPT ![s] = None]
    /\ stalled' = [stalled EXCEPT ![s] = FALSE]

\* The InitialState send fails: handle_websocket returns.
InitialSendFail(s) ==
    /\ spc[s] = "init_send"
    /\ DropReceiver(s)
    /\ UNCHANGED <<matches, observers, now, booted, clientVars,
                   smatch, commitLog, accepted>>
    /\ UNCHANGED lockVars

\* send_task: rx.recv() yields the oldest message and the socket takes it.
\* The task runs until it ends or its abort takes effect.
Forward(s) ==
    /\ spc[s] \in {"active", "closing"}
    /\ ~stalled[s]
    /\ chan[s] # << >>
    /\ recv' = [recv EXCEPT ![s] = Append(@, Head(chan[s]))]
    /\ chan' = [chan EXCEPT ![s] = Tail(@)]
    /\ UNCHANGED <<matches, observers, now, booted, clientVars,
                   spc, smatch, snap, stalled, subAt, commitLog, accepted>>
    /\ UNCHANGED lockVars

\* send_task: the socket send of a received message fails; the task breaks
\* out of its loop and ends, and select! aborts recv_task.
SendError(s) ==
    /\ spc[s] \in {"active", "closing"}
    /\ chan[s] # << >>
    /\ DropReceiver(s)
    /\ UNCHANGED <<matches, observers, now, booted, clientVars,
                   smatch, commitLog, accepted>>
    /\ UNCHANGED lockVars

\* recv_task ends: a Close frame, a transport error or the end of the stream.
ClientClose(s) ==
    /\ spc[s] = "active"
    /\ spc' = [spc EXCEPT ![s] = "closing"]
    /\ subAt' = [subAt EXCEPT ![s] = 0]
    /\ UNCHANGED <<matches, observers, chan, now, booted, clientVars,
                   smatch, snap, stalled, recv, commitLog, accepted>>
    /\ UNCHANGED lockVars

\* select! has seen recv_task end; send_task.abort() takes effect.
AbortSendTask(s) ==
    /\ spc[s] = "closing"
    /\ DropReceiver(s)
    /\ UNCHANGED <<matches, observers, now, booted, clientVars,
                   smatch, commitLog, accepted>>
    /\ UNCHANGED lockVars

\* The client stops reading its socket while the connection stays open: the
\* socket send of send_task no longer completes.
ClientStall(s) ==
    /\ spc[s] = "active"
    /\ ~stalled[s]
    /\ stalled' = [stalled EXCEPT ![s] = TRUE]
    /\ UNCHANGED <<matches, observers, chan, now, booted, clientVars,
                   spc, smatch, snap, recv, subAt, commitLog, accepted>>
    /\ UNCHANGED lockVars

\* The client reads again.
ClientResume(s) ==
    /\ stalled[s]
    /\ stalled' = [stalled EXCEPT ![s] = FALSE]
    /\ UNCHANGED <<matches, observers, chan, now, booted, clientVars,
                   spc, smatch, snap, recv, subAt, commitLog, accepted>>
    /\ UNCHANGED lockVars

\* --------------------------------------------------- Match Store lock

\* The holders of guards of the matches lock: a POST /action handler inside
\* update_match is named by its client, list_matches_handler by ListHandler.
ListHandler == 0

\* A read that does not wait for the writer.
CanReadUnguarded(lock) == TRUE

\* self.matches.read().await returns once no write guard is out.
CanRead(lock) == lock.writers = {}

\* self.matches.write().await returns once no guard is out.
CanWrite(lock) == lock.writers = {} /\ lock.readers = {}

AcquireWrite(lock, h) == [lock EXCEPT !.writers = @ \cup {h}]
AcquireRead(lock, h) == [lock EXCEPT !.readers = @ \cup {h}]

\* The write guard outlives update_match.
KeepWrite(lock, h) == lock

\* The guard goes out of scope at the end of the function that took it.
ReleaseWrite(lock, h) == [lock EXCEPT !.writers = @ \ {h}]
ReleaseRead(lock, h) == [lock EXCEPT !.readers = @ \ {h}]

\* create_match: write().await.insert(..) in one statement.
LockedCreateMatch(p, player1, player2) ==
    /\ CanWrite(mlock)
    /\ CreateMatchStep(p, player1, player2)
    /\ whole' = whole \cup MatchSummaries(matches')
    /\ UNCHANGED <<mlock, lpc, lsnap>>

\* get_match inside post_action_handler: read().await.get(..).cloned().
LockedPostAction(p, match_id, player_id, action) ==
    /\ CanRead(mlock)
    /\ PostAction(p, match_id, player_id, action)

\* get_match inside get_state_handler.
LockedGetState(match_id) ==
    /\ CanRead(mlock)
    /\ GetState(match_id)

\* get_match inside handle_websocket.
LockedSessionGet(s) ==
    /\ CanRead(mlock)
    /\ SessionGet(s)

UpdateFrame ==
    UNCHANGED <<observers, chan, now, booted, req, resp, reply, sessionVars,
                accepted, lpc, lsnap>>

\* update_match: let mut matches = self.matches.write().await.
UpdateAcquire(p) ==
    /\ pc[p] = "update"
    /\ CanWrite(mlock)
    /\ mlock' = AcquireWrite(mlock, p)
    /\ pc' = [pc EXCEPT ![p] = "update_state"]
    /\ UNCHANGED <<matches, commitLog, call, whole>>
    /\ UpdateFrame

\* update_match: match_data.state = new_state, under get_mut's Some.
UpdateWriteState(p) ==
    /\ pc[p] = "update_state"
    /\ LET m == req[p].match_id
       IN matches' = IF m \in DOMAIN matches
                     THEN [matches EXCEPT ![m].state = req[p].new_state]
                     ELSE matches
    /\ pc' = [pc EXCEPT ![p] = "update_time"]
    /\ UNCHANGED <<mlock, commitLog, call, whole>>
    /\ UpdateFrame

\* update_match: match_data.updated_at = Utc::now(), and the guard is dropped
\* as the function returns.
UpdateWriteTime(p) ==
    /\ pc[p] = "update_time"
    /\ LET m == req[p].match_id
           written == m \in DOMAIN matches
       IN /\ matches' = IF written
                        THEN [matches EXCEPT ![m].updated_at = now]
                        ELSE matches
          /\ commitLog' = IF written
                          THEN [commitLog EXCEPT ![m] = Append(@, req[p].new_state)]
                          ELSE commitLog
          /\ call' = [call EXCEPT ![p].wrote = written]
    /\ mlock' = ReleaseWrite(mlock, p)
    /\ whole' = whole \cup MatchSummaries(matches')
    /\ pc' = [pc EXCEPT ![p] = "notify_wait"]
    /\ UpdateFrame

ListFrame ==
    UNCHANGED <<matches, observers, chan, now, booted, pc, req, resp, call,
                sessionVars, commitLog, accepted, whole>>

NoList == [done |-> {}, ids |-> {}, part |-> None]

\* list_matches_handler: let matches = state.matches.read().await.
ListAcquire ==
    /\ lpc = "idle"
    /\ CanRead(mlock)
    /\ mlock' = AcquireRead(mlock, ListHandler)
    /\ lsnap' = NoList
    /\ lpc' = IF DOMAIN matches = {} THEN "respond" ELSE "read_state"
    /\ UNCHANGED reply
    /\ ListFrame

\* The closure of .map(): the fields of m.state of the next match.
ListReadState ==
    /\ lpc = "read_state"
    /\ \E k \in DOMAIN matches \ lsnap.ids :
          lsnap' = [lsnap EXCEPT !.part = Some([key |-> k, state |-> matches[k].state])]
    /\ lpc' = "read_time"
    /\ UNCHANGED <<mlock, reply>>
    /\ ListFrame

\* The closure of .map(): m.created_at and m.updated_at of that match.
ListReadTime ==
    /\ lpc = "read_time"
    /\ LET k == lsnap.part.value.key
           st == lsnap.part.value.state
           ids == lsnap.ids \cup {k}
       IN /\ lsnap' = [done |-> lsnap.done \cup
                                  {[id |-> matches[k].id, players |-> st.players,
                                    turn |-> st.turn, turn_count |-> st.turn_count,
                                    created_at |-> matches[k].created_at,
                                    updated_at |-> matches[k].updated_at]},
                       ids |-> ids, part |-> None]
          /\ lpc' = IF DOMAIN matches \ ids = {} THEN "respond" ELSE "read_state"
    /\ UNCHANGED <<mlock, reply>>
    /\ ListFrame

\* list_matches_handler returns its list; the read guard is dropped.
ListRespond ==
    /\ lpc = "respond"
    /\ reply' = Ok("matches", [matches |-> lsnap.done])
    /\ mlock' = ReleaseRead(mlock, ListHandler)
    /\ lsnap' = << >>
    /\ lpc' = "idle"
    /\ ListFrame

\* ------------------------------------------------------ specifications

\* What one HTTP client can do next, its requests drawn from the given ids
\* and player pairs.
ClientStep(p, ids, pairs) ==
    \/ \E pair \in pairs : CreateMatch(p, pair[1], pair[2])
    \/ \E m \in ids, pl \in PlayerIds, a \in Actions : PostAction(p, m, pl, a)
    \/ PostActionUpdate(p)
    \/ NotifyAcquire(p)
    \/ NotifySend(p)
    \/ Return(p)

\* What one WebSocket connection and its server tasks do while the client
\* keeps reading and the transport holds.
HealthyStep(s, ids) ==
    \/ \E m \in ids : Connect(s, m)
    \/ AddObserver(s)
    \/ SessionGet(s)
    \/ InitialSendOk(s)
    \/ Forward(s)

\* What one WebSocket connection, its server tasks and its client can do next.
SessionStep(s, ids) ==
    \/ HealthyStep(s, ids)
    \/ InitialSendFail(s)
    \/ SendError(s)
    \/ ClientClose(s)
    \/ AbortSendTask(s)
    \/ ClientStall(s)
    \/ ClientResume(s)

QueryStep(ids) ==
    \/ \E m \in ids : GetState(m)
    \/ ListMatches
    \/ \E m \in ids, pl \in PlayerIds : AiAction(m, pl)

\* The registry and the fan-out under concurrent requests on one match id,
\* with one connection.  The example matches have other ids and the
\* bootstrap task changes nothing these requests read; it runs in SpecStore.
Next ==
    \/ \E p \in Clients : ClientStep(p, RequestIds, CreatePairs)
    \/ SessionStep(1, RequestIds)

Spec == Init /\ [][Next]_vars

\* One client whose requests follow one another, each returning before the
\* next starts, and several connections.
NextSeq ==
    \/ ClientStep(1, RequestIds, CreatePairs)
    \/ \E s \in Sessions : SessionStep(s, RequestIds)

SpecSeq == Init /\ [][NextSeq]_vars

\* The tokio runtime keeps polling every task that can make progress: the
\* request handler, and each session's own steps whenever its client reads
\* (a client that reads again and again gets its frames).  Nothing obliges a
\* client to close, to stall or to resume reading.
SpecSeqFair ==
    /\ SpecSeq
    /\ WF_vars(ClientStep(1, RequestIds, CreatePairs))
    /\ \A s \in Sessions : SF_vars(HealthyStep(s, RequestIds) \/ AbortSendTask(s))

\* Concurrent requests and several connections whose clients keep reading.
NextRace ==
    \/ \E p \in Clients : ClientStep(p, RequestIds, CreatePairs)
    \/ \E s \in Sessions : HealthyStep(s, RequestIds)

SpecRace == Init /\ [][NextRace]_vars

\* Two matches, the first example match and a created one, with concurrent
\* requests on either; one connection watches each.
IsoIds == {ExampleIds[1], MaxMatchIds}

NextIso ==
    \/ Bootstrap
    \/ \E p \in Clients : ClientStep(p, IsoIds, CreatePairs)
    \/ SessionStep(1, {ExampleIds[1]})
    \/ HealthyStep(2, {MaxMatchIds})

SpecIso == Init /\ [][NextIso]_vars

\* The matches lock in steps: update_match and list_matches_handler keep their
\* guard across several statements, every other access is one statement.
LockedClientStep(p, ids, pairs) ==
    \/ \E pair \in pairs : LockedCreateMatch(p, pair[1], pair[2])
    \/ \E m \in ids, pl \in PlayerIds, a \in Actions : LockedPostAction(p, m, pl, a)
    \/ UpdateAcquire(p)
    \/ UpdateWriteState(p)
    \/ UpdateWriteTime(p)
    \/ NotifyAcquire(p)
    \/ NotifySend(p)
    \/ Return(p)

LockedSessionStep(s, ids) ==
    \/ \E m \in ids : Connect(s, m)
    \/ AddObserver(s)
    \/ LockedSessionGet(s)
    \/ InitialSendOk(s)
    \/ Forward(s)

NextLock ==
    \/ Tick
    \/ LockedClientStep(1, RequestIds, CreatePairs)
    \/ LockedSessionStep(1, RequestIds)
    \/ \E m \in RequestIds : LockedGetState(m)
    \/ ListAcquire \/ ListReadState \/ ListReadTime \/ ListRespond

SpecLock == Init /\ [][NextLock]_vars

\* update_match on its own: any id, stored or not, and any state, against a
\* store that the bootstrap task and creates fill and a clock that moves.
NextUpdate ==
    \/ Bootstrap
    \/ Tick
    \/ \E pair \in CreatePairs : CreateMatch(1, pair[1], pair[2])
    \/ \E m \in StoreIds, st \in UpdateStates : UpdateMatchCall(1, m, st)
    \/ Return(1)

SpecUpdate == Init /\ [][NextUpdate]_vars

\* The Match Store with its clock, the bootstrap task and the read-only
\* handlers, one client and one connection whose client keeps reading.
NextStore ==
    \/ Bootstrap
    \/ Tick
    \/ QueryStep(StoreIds)
    \/ ClientStep(1, StoreIds, CreatePairs)
    \/ HealthyStep(1, StoreIds)

SpecStore == Init /\ [][NextStore]_vars


\* ------------------------------------------------------------- claims

Range(seq) == {seq[i] : i \in DOMAIN seq}

\* The StateUpdate events of a sequence of frames, in order.
Updates(frames) == SelectSeq(frames, LAMBDA e : e.type = "state_update")

\* The state an event carries has been written to the store for its match.
Committed(e) ==
    \E i \in DOMAIN commitLog[e.match_id] : commitLog[e.match_id][i] = e.state

ActionOk(p) ==
    pc[p] = "done" /\ resp[p].op = "action" /\ resp[p].status = 200

\* C1: commit-then-notify.  Every StateUpdate that sits in an observer channel
\* or has reached a client carries a state update_match has already written;
\* a handler that is in notify_observers has completed its write; and a
\* success response exists only after the write and after notify_observers
\* has returned.
C1_CommitThenNotify ==
    /\ \A s \in Sessions :
          /\ \A i \in DOMAIN chan[s] : Committed(chan[s][i])
          /\ \A i \in DOMAIN recv[s] :
                recv[s][i].type = "state_update" => Committed(recv[s][i])
    /\ \A p \in Clients :
          /\ pc[p] \in {"notify_wait", "notify"} =>
                /\ call[p].wrote
                /\ Committed(Notification(req[p].match_id, req[p].new_state))
          /\ ActionOk(p) =>
                /\ call[p].wrote
                /\ call[p].notified
                /\ Committed(StateUpdate(req[p].match_id, resp[p].data))

\* A client has received a StateUpdate and its mutator has its success.
C1_Witness ==
    \E s \in Sessions, p \in Clients :
        /\ ActionOk(p)
        /\ \E i \in DOMAIN recv[s] :
              recv[s][i] = StateUpdate(req[p].match_id, resp[p].data)

\* C2: a POST /action the engine refuses answers with the engine's error and
\* changes neither the store nor the registry nor any channel, and the handler
\* is finished: nothing of it is left to write or to notify.
C2_RejectedLeavesNoTrace ==
    [][\A p \in Clients, m \in RequestIds, pl \in PlayerIds, a \in Actions :
          (/\ PostAction(p, m, pl, a)
           /\ m \in DOMAIN matches
           /\ ~apply_action(matches[m].state, pl, a).ok)
          => /\ pc'[p] = "done"
             /\ resp'[p] = BadRequest("action",
                                      apply_action(matches[m].state, pl, a).error)
             /\ ~call'[p].wrote /\ ~call'[p].notified
             /\ UNCHANGED <<matches, commitLog, observers, chan, recv>>]_vars

\* A refused action on a match that a connected observer watches.
C2_Witness ==
    \E p \in Clients, s \in Sessions :
        /\ pc[p] = "done" /\ resp[p].op = "action" /\ resp[p].status = 400
        /\ spc[s] = "active" /\ smatch[s] \in DOMAIN matches
        /\ s \in Range(Senders(observers, smatch[s]))

\* C3: for a match id the store does not hold, get_match returns absence,
\* GET /state answers NotFound, and POST /action answers NotFound without
\* running the engine, writing the store or touching a channel.
C3_AbsentIdIsNotFound ==
    /\ [](\A m \in MatchIds \ DOMAIN matches : get_match(matches, m) = None)
    /\ [][\A m \in StoreIds \ DOMAIN matches :
             /\ GetState(m) => reply' = NotFound("state", m)
             /\ \A pl \in PlayerIds, a \in Actions :
                   PostAction(1, m, pl, a)
                   => /\ pc'[1] = "done"
                      /\ resp'[1] = NotFound("action", m)
                      /\ ~call'[1].engine /\ ~call'[1].wrote /\ ~call'[1].notified
                      /\ UNCHANGED <<matches, commitLog, observers, chan, recv>>]_vars

\* A POST /action was answered NotFound for an id an observer is registered
\* under and no match has.
C3_Witness ==
    /\ pc[1] = "done" /\ resp[1].op = "action" /\ resp[1].status = 404
    /\ resp[1].error.match_id \notin DOMAIN matches
    /\ DOMAIN matches # {}
    /\ \E s \in Sessions : spc[s] = "active" /\ smatch[s] = resp[1].error.match_id


\* The StateUpdate events a session's client has received or will receive from
\* the channel as it stands.
Pending(s) == Updates(recv[s]) \o chan[s]

\* The StateUpdate events of the commits to a match after the first `from`.
CommitsSince(m, from) ==
    [i \in 1..(Len(commitLog[m]) - from) |-> StateUpdate(m, commitLog[m][from + i])]

IsPrefix(a, b) == Len(a) <= Len(b) /\ a = SubSeq(b, 1, Len(a))

\* The session's channel is registered and its receiver lives.
Subscribed(s) == spc[s] \in {"get", "init_send", "active"}

\* C4: with sequential mutates, an observer that subscribed between two
\* requests has, received or queued, exactly the StateUpdate events of the
\* commits made since it subscribed, in commit order, the i-th carrying the
\* i-th committed state: a prefix while a request is in flight, all of them
\* once it has returned.
C4_SequentialUpdatesInOrder ==
    \A s \in Sessions :
        (Subscribed(s) /\ subAt[s] >= 0)
        => LET expected == CommitsSince(smatch[s], subAt[s])
           IN /\ IsPrefix(Pending(s), expected)
              /\ ~InFlight(smatch[s]) => Pending(s) = expected

\* An observer that stayed subscribed has received two updates of two
\* completed requests.
C4_Witness ==
    \E s \in Sessions :
        /\ spc[s] = "active" /\ subAt[s] >= 0
        /\ ~InFlight(smatch[s])
        /\ chan[s] = << >>
        /\ Len(Updates(recv[s])) = 2
        /\ Len(commitLog[smatch[s]]) - subAt[s] = 2

\* The session's client is connected and reading.
Healthy(s) == spc[s] = "active" /\ ~stalled[s]

\* The session was registered before the handler's commit.
SubscribedBefore(s, p) ==
    /\ Subscribed(s)
    /\ smatch[s] = req[p].match_id
    /\ 0 <= subAt[s] /\ subAt[s] < Len(commitLog[smatch[s]])

\* C5: a notify that has started returns to the mutator, and by then every
\* healthy observer of the match has the event, whatever the other observers
\* of the match do with their channels.
C5_SlowObserverDoesNotBlock ==
    \A p \in Clients :
        (pc[p] = "notify")
        ~> (/\ pc[p] = "done"
            /\ \A s \in Sessions :
                  (Healthy(s) /\ SubscribedBefore(s, p))
                  => Notification(req[p].match_id, req[p].new_state)
                        \in Range(Pending(s)))

\* C6: once a notify has returned, no channel whose send failed during it is
\* left in the collection of its match.
C6_FailedChannelsPruned ==
    \A p \in Clients :
        (pc[p] = "done" /\ call[p].notified)
        => \A s \in call[p].failed :
              s \notin Range(Senders(observers, req[p].match_id))

\* C7: an accepted mutate ends with the success response carrying the state
\* it committed, whatever happened to the sends; and every live observer that
\* was subscribed before the commit has the event, closed channels ahead of it
\* in the collection or not.
C7_DeliveryFailuresContained ==
    \A p \in Clients :
        (pc[p] = "done" /\ call[p].wrote)
        => /\ resp[p] = Ok("action", req[p].new_state)
           /\ Committed(StateUpdate(req[p].match_id, req[p].new_state))
           /\ \A s \in Sessions :
                 SubscribedBefore(s, p)
                 => Notification(req[p].match_id, req[p].new_state)
                       \in Range(Pending(s))

\* A notify met a closed channel first and a live one after it, and the
\* mutator has its success.
C7_Witness ==
    \E p \in Clients :
        /\ ActionOk(p)
        /\ LET senders == Senders(observers, req[p].match_id)
           IN \E i, j \in DOMAIN senders :
                 /\ i < j
                 /\ senders[i] \in call[p].failed
                 /\ spc[senders[j]] = "active"
                 /\ Notification(req[p].match_id, req[p].new_state)
                       \in Range(recv[senders[j]])


\* e1 comes before e2 in the sequence.
Before(seq, e1, e2) ==
    \E i, j \in DOMAIN seq : i < j /\ seq[i] = e1 /\ seq[j] = e2

\* C8: two observers of a match never hold the same two StateUpdate events in
\* opposite orders, concurrent mutates included.
C8_SameOrderOnEveryChannel ==
    \A s, t \in Sessions :
        \A e1 \in Range(Pending(s)), e2 \in Range(Pending(s)) :
            (e1 # e2 /\ Before(Pending(s), e1, e2)) => ~Before(Pending(t), e2, e1)

\* The channel of every session that has been registered and is not yet torn
\* down is in the collection of its match id.
Registered(s) ==
    spc[s] \in {"get", "init_send", "active", "closing"}
    => s \in Range(Senders(observers, smatch[s]))

HasInitialState(s) == \E i \in DOMAIN recv[s] : recv[s][i].type = "initial_state"

\* C9: a subscription to an id the store does not hold registers the channel
\* under that id and goes Active without any InitialState; and such an
\* observer has, received or queued, the StateUpdate of every mutate committed
\* on a match created later under that id.
C9_SubscribeBeforeCreate ==
    /\ [](\A s \in Sessions : Registered(s))
    /\ [][\A s \in Sessions :
             (SessionGet(s) /\ smatch[s] \notin DOMAIN matches)
             => /\ spc'[s] = "active"
                /\ s \in Range(Senders(observers', smatch[s]))
                /\ UNCHANGED <<recv, chan, observers>>]_vars
    /\ [](\A s \in Sessions :
             (spc[s] = "active" /\ ~HasInitialState(s) /\ subAt[s] >= 0)
             => /\ subAt[s] = 0
                /\ IsPrefix(Pending(s), CommitsSince(smatch[s], 0))
                /\ ~InFlight(smatch[s])
                      => Pending(s) = CommitsSince(smatch[s], 0))

\* An observer that subscribed before its match existed received the update
\* of a mutate on the match created afterwards, and never an InitialState.
C9_Witness ==
    \E s \in Sessions :
        /\ spc[s] = "active" /\ ~HasInitialState(s)
        /\ smatch[s] \in DOMAIN matches
        /\ recv[s] # << >>
        /\ recv[s][1] = StateUpdate(smatch[s], commitLog[smatch[s]][1])

\* C10: a POST /match/create answers success with an id the store did not
\* hold; right after it get_match of that id gives a match whose state is the
\* engine's new game of the two players, with the first one to move, and
\* whose created_at equals updated_at; every match stored before is unchanged.
C10_CreateAddsFreshMatch ==
    [][\A pair \in CreatePairs :
          CreateMatch(1, pair[1], pair[2])
          => /\ pc'[1] = "done"
             /\ resp'[1].status = 200 /\ resp'[1].op = "create"
             /\ LET id == resp'[1].data.match_id
                    found == get_match(matches', id)
                IN /\ id \notin DOMAIN matches
                   /\ found.some
                   /\ found.value.id = id
                   /\ found.value.state.players = pair
                   /\ found.value.state.turn = pair[1]
                   /\ found.value.state = GameStateNew(pair[1], pair[2])
                   /\ found.value.created_at = found.value.updated_at
                   /\ \A k \in DOMAIN matches : matches'[k] = matches[k]]_vars

\* A match was created next to the stored ones, after the clock had advanced.
C10_Witness ==
    /\ pc[1] = "done" /\ resp[1].op = "create" /\ resp[1].status = 200
    /\ booted /\ now > 0
    /\ resp[1].data.match_id \in DOMAIN matches
    /\ matches[resp[1].data.match_id].created_at = now
    /\ Cardinality(DOMAIN matches) > 1


Last(seq) == seq[Len(seq)]

\* C11: a successful mutate with no other mutate on the match leaves
\* updated_at strictly greater than before and created_at as it was, and the
\* store then holds exactly the state the engine returned and the caller got,
\* for every get until the next successful mutate.
C11_MutateBumpsTimestamp ==
    /\ [][\A p \in Clients :
             PostActionUpdate(p)
             => LET m == req[p].match_id
                IN /\ matches'[m].updated_at > matches[m].updated_at
                   /\ matches'[m].created_at = matches[m].created_at
                   /\ matches'[m].state = req[p].new_state]_vars
    /\ [](\A m \in DOMAIN matches :
             (~InFlight(m) /\ commitLog[m] # << >>)
             => get_match(matches, m) = Some([matches[m] EXCEPT
                                                !.state = Last(commitLog[m])]))
    /\ [](\A p \in Clients :
             (ActionOk(p) /\ ~InFlight(req[p].match_id))
             => GetStateResponse(matches, req[p].match_id)
                   = Ok("state", resp[p].data))


\* C12: a connection whose match is in the store when it looks it up goes on
\* to send InitialState with the stored state and becomes Active only with
\* that frame as the first its client has; no connection ever has an
\* InitialState anywhere but first, so at most one and before any
\* StateUpdate.  After create(a, b), subscribe, EndTurn by a, the observer has
\* InitialState and then exactly one StateUpdate, whose turn is b.
C12_InitialStateFirst ==
    /\ [][\A s \in Sessions :
             (SessionGet(s) /\ smatch[s] \in DOMAIN matches)
             => /\ spc'[s] = "init_send"
                /\ snap'[s] = Some(matches[smatch[s]].state)
                /\ UNCHANGED <<recv, chan>>]_vars
    /\ [][\A s \in Sessions :
             (spc[s] = "init_send" /\ spc'[s] = "active")
             => recv'[s] = <<InitialState(smatch[s], snap[s].value)>>]_vars
    /\ [](\A s \in Sessions : \A i \in DOMAIN recv[s] :
             recv[s][i].type = "initial_state" => i = 1)
    /\ [](\A s \in Sessions :
             (/\ spc[s] = "active" /\ chan[s] = << >>
              /\ HasInitialState(s)
              /\ recv[s][1].state = GameStateNew("a", "b")
              /\ subAt[s] = 0
              /\ ~InFlight(smatch[s])
              /\ Len(commitLog[smatch[s]]) = 1)
             => /\ Len(recv[s]) = 2
                /\ recv[s][2].type = "state_update"
                /\ recv[s][2].match_id = smatch[s]
                /\ recv[s][2].state.turn = "b")

\* The observer of the scenario has its two frames.
C12_Witness ==
    \E s \in Sessions :
        /\ spc[s] = "active"
        /\ recv[s] = <<InitialState(smatch[s], GameStateNew("a", "b")),
                       StateUpdate(smatch[s],
                                   apply_action(GameStateNew("a", "b"), "a", "EndTurn").state)>>


\* The handler's notify is parked on a send to a full, open channel.
WaitingOnSend(p) ==
    /\ pc[p] = "notify"
    /\ LET t == Senders(observers, req[p].match_id)[req[p].idx]
       IN SendOutcome(chan[t], RxDropped(t)) = "wait"

\* The channel the handler's notify is parked on.
SendTarget(p) == Senders(observers, req[p].match_id)[req[p].idx]

\* C13: while an observer of one match is unresponsive, with a notify of that
\* match parked on its full channel, a subscribe to another match can still
\* register and a mutate on another match can still start its notify.
C13_OtherMatchUnaffected ==
    \A p \in Clients :
        (WaitingOnSend(p) /\ stalled[SendTarget(p)])
        => /\ \A s \in Sessions :
                 (spc[s] = "add_wait" /\ smatch[s] # req[p].match_id)
                 => ENABLED AddObserver(s)
           /\ \A q \in Clients :
                 (pc[q] = "notify_wait" /\ req[q].match_id # req[p].match_id)
                 => ENABLED NotifyAcquire(q)

\* C14: while a notify is parked on a send to a slow channel, a subscribe
\* that is waiting for the registry can acquire it and complete.
C14_SubscribeNotHeldUp ==
    \A s \in Sessions :
        (spc[s] = "add_wait" /\ \E p \in Clients : WaitingOnSend(p))
        => ENABLED AddObserver(s)

StoreHolders == mlock.writers \cup mlock.readers

\* C16: no call path holds a guard of the matches lock while it holds or asks
\* for a guard of the observers lock, and none holds a guard of the observers
\* lock while it holds or asks for one of the matches lock; so no cycle of
\* waits between the two locks exists.
C16_LocksNeverNested ==
    /\ \A p \in Clients :
          p \in StoreHolders => pc[p] \in {"update_state", "update_time"}
    /\ \A p \in Readers : p \notin StoreHolders /\ pc[p] # "update"
    /\ ListHandler \in StoreHolders => lpc \in {"read_state", "read_time", "respond"}
    /\ \A s \in Sessions : s \in WaitingWriters => spc[s] # "get"

\* Both locks are held at once, by two different handlers, and the holder of
\* the observers lock has been through update_match.
C16_Witness ==
    /\ ListHandler \in mlock.readers
    /\ \E p \in Readers : call[p].wrote

\* C17: every key of the store holds the Match of that id, and the (state,
\* updated_at) of a match that a get or a list reads is one that the store held
\* between two writes, never the state of one write with the updated_at of
\* another.
C17_AtomicReplace ==
    /\ [](\A k \in DOMAIN matches : matches[k].id = k)
    /\ [](lpc \in {"read_state", "read_time", "respond"} => lsnap.done \subseteq whole)
    /\ [][ListRespond => reply'.data.matches \subseteq whole]_vars
    /\ [][\A m \in RequestIds :
             LockedGetState(m) /\ m \in DOMAIN matches
                => MatchSummaries([k \in {m} |-> matches[k]]) \subseteq whole]_vars

\* The list handler is between its two reads of a match while an update of
\* that match waits for the lock, after the clock has moved.
C17_Witness ==
    /\ lpc = "read_time"
    /\ \E p \in Clients :
          /\ pc[p] = "update"
          /\ req[p].match_id = lsnap.part.value.key
          /\ matches[req[p].match_id].updated_at # now

\* The step is the update_match of an action the engine accepted on match m.
SuccessfulMutate(m) ==
    \E p \in Clients :
        /\ PostActionUpdate(p)
        /\ req[p].match_id = m

\* C18: in every step every stored match stays in the store with its id and
\* created_at, and its state and updated_at are those of before the step
\* unless the step is the update of a successful mutate of that match.
C18_StoreFrame ==
    [][\A m \in DOMAIN matches :
          /\ m \in DOMAIN matches'
          /\ matches'[m].id = matches[m].id
          /\ matches'[m].created_at = matches[m].created_at
          /\ \/ SuccessfulMutate(m)
             \/ /\ matches'[m].state = matches[m].state
                /\ matches'[m].updated_at = matches[m].updated_at]_vars

\* Every id holds a match, one of them mutated, after a create, a list and a
\* rejected action.
C18_Witness ==
    /\ DOMAIN matches = MatchIds
    /\ \E m \in MatchIds : commitLog[m] # << >> /\ matches[m].state = Last(commitLog[m])
    /\ reply.op = "matches"
    /\ resp[1].status = 400

\* C19: a call of update_match with an id the store does not hold leaves the
\* whole store as it was; with an id it holds, it leaves the set of ids and
\* every other record as they were, and the record of that id keeps its id and
\* created_at and gets the new state and the clock's reading.
C19_UpdateAbsentIsNoOp ==
    [][\A p \in Clients, m \in StoreIds, st \in UpdateStates :
          UpdateMatchCall(p, m, st) =>
             IF m \notin DOMAIN matches
             THEN matches' = matches
             ELSE /\ DOMAIN matches' = DOMAIN matches
                  /\ matches'[m] = [id |-> matches[m].id, state |-> st,
                                    created_at |-> matches[m].created_at,
                                    updated_at |-> now]
                  /\ \A k \in DOMAIN matches \ {m} : matches'[k] = matches[k]]_vars

\* update_match has returned from a call with an id the store does not hold,
\* while the store holds a match that an earlier call has updated.
C19_Witness ==
    /\ pc[1] = "done"
    /\ resp[1].op = "update"
    /\ req[1].match_id \notin DOMAIN matches
    /\ \E k \in DOMAIN matches : commitLog[k] # << >>

\* The places of the registry that hold the sender of session s.
Places(s) ==
    {<<m, i>> \in (DOMAIN observers) \X (1..MaxSessions) :
        i \in DOMAIN observers[m] /\ observers[m][i] = s}

\* C20: every sender is at one place of the registry at most, and that place
\* is in the collection of the id its connection asked for; add_observer puts
\* the sender of a channel nothing has been sent on, once, at the end of that
\* collection; an iteration of a notify for m enqueues on no channel but one
\* registered under m, and every event a channel holds or has delivered is an
\* event of the id the channel is registered under.
C20_RegistryInvariant ==
    /\ [](\A s \in Sessions :
             /\ Cardinality(Places(s)) <= 1
             /\ \A pl \in Places(s) : pl[1] = smatch[s]
             /\ \A e \in Range(chan[s]) \cup Range(recv[s]) : e.match_id = smatch[s])
    /\ [][\A s \in Sessions :
             AddObserver(s)
             => /\ Places(s) = {}
                /\ chan[s] = << >>
                /\ \E i \in 1..MaxSessions :
                      /\ DOMAIN observers'[smatch[s]] = 1..i
                      /\ observers'[smatch[s]][i] = s
                      /\ \A m \in DOMAIN observers :
                            \A j \in DOMAIN observers[m] :
                               observers'[m][j] = observers[m][j]]_vars
    /\ [][\A p \in Clients :
             NotifySend(p)
             => \A s \in Sessions :
                   chan'[s] # chan[s]
                   => /\ smatch[s] = req[p].match_id
                      /\ \E pl \in Places(s) : pl[1] = req[p].match_id]_vars

\* Two connections are registered under two ids; a notify for the first id
\* has enqueued its event on the first channel, and the second channel has had
\* no event.
C20_Witness ==
    /\ Places(1) # {} /\ Places(2) # {}
    /\ smatch[1] # smatch[2]
    /\ \E e \in Range(chan[1]) : e.type = "state_update"
    /\ spc[2] = "active"
    /\ chan[2] = << >> /\ Updates(recv[2]) = << >>

\* C21: the state a handler commits is the engine's result for its request on
\* the state the store holds for the match at the moment of the commit, so
\* the commits of concurrent handlers compose in the order they are made.
C21_NoLostUpdate ==
    [][\A p \in Clients :
          (PostActionUpdate(p) /\ req[p].match_id \in DOMAIN matches)
          => LET r == apply_action(matches[req[p].match_id].state,
                                   req[p].player_id, req[p].action)
             IN r.ok /\ r.state = req[p].new_state]_vars

\* C22: for a connected observer whose client keeps reading, when no POST
\* /action on its match is in flight and its channel is empty, the last event
\* its client received carries the state the store holds for the match.
C22_ObserverConvergence ==
    \A s \in Sessions :
        (/\ Healthy(s)
         /\ ~InFlight(smatch[s])
         /\ chan[s] = << >>
         /\ recv[s] # << >>)
        => /\ smatch[s] \in DOMAIN matches
           /\ Last(recv[s]).state = matches[smatch[s]].state

====
